---- MODULE Spec2Model ----
(***************************************************************************)
(* FilesComponent of components/serverless-files/serverless.js:            *)
(* default(rawInputs) deploys three functions, an S3 bucket, the bucket    *)
(* notification wiring and the API service, one awaited call after the     *)
(* other; remove() removes the API service and the three functions and     *)
(* clears the component state.  Every awaited call is one action.          *)
(***************************************************************************)
EXTENDS Integers, Sequences, FiniteSets, TLC

VARIABLES
    pc,         \* the statement default() or remove() is at, "idle" between passes
    inputs,     \* the normalized inputs of the current deploy pass
    locals,     \* the outputs default() holds in its local constants
    state,      \* this.state
    persisted,  \* what the last this.save() wrote
    calls,      \* the awaited component calls of the current or last pass
    outcome,    \* how the current or last pass settled
    preceding,  \* how the pass before it settled
    prev,       \* the pass before a deploy pass, when it was a successful
                \* deploy (kept by the re-deployment specification only)
    other       \* the statement a second, concurrent call of remove() is at,
                \* "idle" when there is none (concurrent specification only)

vars == <<pc, inputs, locals, state, persisted, calls, outcome, preceding, prev,
          other>>

(* ---------------------------- bounds ----------------------------------- *)

\* number of distinct revisions under which the provider hands out the
\* identifiers (arn, url) of a resource
NumVersions == 2

\* number of concurrent calls of remove() started during one pass
MaxConcurrent == 1

(* ------------------------- JavaScript values --------------------------- *)

\* the value undefined where an object is expected
Undefined == [undefined |-> TRUE]

\* the value undefined where a primitive is expected
UndefinedValue == "(undefined)"

\* the object literal {}
EmptyObject == <<>>

\* a rejected promise of an awaited call
Threw == [threw |-> TRUE]

\* the booleans true and false, kept apart from the strings "true", "false"
BoolTrue == "(boolean)true"

BoolFalse == "(boolean)false"

\* { ...a, ...b }: the keys of b win
Merge(a, b) ==
    [k \in (DOMAIN a) \cup (DOMAIN b) |-> IF k \in DOMAIN b THEN b[k] ELSE a[k]]

\* obj.key for a primitive-valued key
Get(obj, key) == IF key \in DOMAIN obj THEN obj[key] ELSE UndefinedValue

\* { ...obj.env }: spreading undefined gives no keys
EnvOf(obj) == IF "env" \in DOMAIN obj THEN obj.env ELSE EmptyObject

\* String(obj.key) for a numeric key: String(undefined) is "undefined"
String(obj, key) == IF key \in DOMAIN obj THEN ToString(obj[key]) ELSE "undefined"

\* a ?? b: only a missing value gives way to the default
OrNullish(a, b) == IF a = UndefinedValue THEN b ELSE a

\* a || b
Or(a, b) == IF a \in {UndefinedValue, BoolFalse, ""} THEN b ELSE a

(* ------------------------------ inputs --------------------------------- *)

Buckets == {"files-prod", "files-dev"}

Regions == {"us-east-1"}

\* inputs.storage: absent (default {}) or options for the bucket component
StorageOptions == {EmptyObject, [name |-> "user-bucket"]}

\* inputs.functions.imageTransformer
ImageTransformerOptions ==
    {Undefined,
     [name |-> "user-fn", memory |-> "1600",
      env |-> [S3_BUCKET |-> "user-bucket", EXTRA |-> "x"]]}

\* inputs.functions.downloadFile
DownloadFileOptions ==
    {Undefined,
     [name |-> "user-fn", memory |-> "512",
      env |-> [S3_BUCKET |-> "user-bucket", EXTRA |-> "y"]]}

\* inputs.functions.apolloService
ApolloServiceOptions ==
    {Undefined,
     [uploadMinFileSize |-> 0, uploadMaxFileSize |-> 10485760],
     [debug |-> BoolFalse, uploadMaxFileSize |-> 10485760,
      plugins |-> <<"plugin">>,
      env |-> [S3_BUCKET |-> "user-bucket", DEBUG |-> "user-debug"]]}

\* inputs.functions.apolloService with the debug flag absent, false and true
DebugOptions ==
    (ApolloServiceOptions \ {Undefined})
        \cup {[debug |-> BoolTrue, uploadMinFileSize |-> 0,
                uploadMaxFileSize |-> 10485760,
                env |-> [DEBUG |-> "user-debug"]]}

\* the values normalizeInputs(rawInputs) hands to default()
Inputs ==
    [region : Regions, bucket : Buckets, storage : StorageOptions,
     functions : [apolloService : ApolloServiceOptions,
                  downloadFile : DownloadFileOptions,
                  imageTransformer : ImageTransformerOptions]]

(* ------------------------ external components -------------------------- *)

\* revisions under which the provider may hand out an identifier
Versions == 1..NumVersions

Arn(name, v) == "arn:" \o name \o ":" \o ToString(v)

\* this.context.instance.getResourceName(name)
getResourceName(name) == "webiny-" \o name

\* what an awaited @webiny/serverless-function call resolves to
FunctionReturns(args) ==
    {[name |-> args.name, arn |-> Arn(args.name, v)] : v \in Versions}
        \cup {EmptyObject}

\* what an awaited @serverless/aws-s3 call resolves to
S3Returns(args) == {[name |-> args.name, region |-> args.region]}

\* what an awaited @webiny/serverless-apollo-service call resolves to
ApolloServiceReturns(args) ==
    {[api |-> [url |-> "https://api/" \o ToString(v)]] : v \in Versions}
        \cup {EmptyObject}

(* ------------------- arguments of the awaited calls -------------------- *)

\* the object passed to manageFilesLambda
manageFilesArgs(in) ==
    [region |-> in.region,
     name |-> getResourceName("manage-files"),
     timeout |-> 10,
     code |-> "functions/manageFiles",
     handler |-> "handler.handler",
     description |-> "Triggered once a file was deleted.",
     env |-> [S3_BUCKET |-> in.bucket]]

\* the object passed to s3: { name: bucket, region, ...storage }
s3Args(in) == Merge([name |-> in.bucket, region |-> in.region], in.storage)

\* notification wiring whose rule is named after whether a deployment is
\* already on record
configureS3BucketArgsPerPass(in, s3Out, mfOut) ==
    [s3Output |-> s3Out,
     manageFilesLambdaOutput |-> mfOut,
     region |-> in.region,
     bucket |-> in.bucket,
     rule |-> IF "output" \in DOMAIN persisted THEN "rule-update" ELSE "rule-create"]

\* the object passed to configureS3Bucket (without the component itself)
configureS3BucketArgs(in, s3Out, mfOut) ==
    [s3Output |-> s3Out,
     manageFilesLambdaOutput |-> mfOut,
     region |-> in.region,
     bucket |-> in.bucket]

\* the object passed to imageTransformerLambda
imageTransformerArgs(in) ==
    Merge(in.functions.imageTransformer,
          [region |-> in.region,
           name |-> getResourceName("image-transformer"),
           description |-> "Performs image optimization, resizing, etc.",
           code |-> "functions/imageTransformer",
           handler |-> "handler.handler",
           env |-> Merge(EnvOf(in.functions.imageTransformer),
                         [S3_BUCKET |-> in.bucket])])

\* the object passed to downloadLambda
downloadArgs(in, itOut) ==
    Merge(in.functions.downloadFile,
          [region |-> in.region,
           name |-> getResourceName("download-files"),
           description |-> "Serves previously uploaded files.",
           code |-> "functions/downloadFile",
           handler |-> "handler.handler",
           env |-> Merge(EnvOf(in.functions.downloadFile),
                         [S3_BUCKET |-> in.bucket,
                          IMAGE_TRANSFORMER_LAMBDA_NAME |-> Get(itOut, "name")])])

\* the API service wired to an arn made up from the function's name instead
\* of the one the download function's deploy returned
apolloServiceArgsMadeUp(in, dlOut) ==
    Merge(in.functions.apolloService,
          [region |-> in.region,
           binaryMediaTypes |-> <<"*/*">>,
           endpoints |-> <<[path |-> "/files/{path}", method |-> "ANY",
                            function |-> Arn(getResourceName("download-files"), 1)]>>,
           env |-> Merge(EnvOf(in.functions.apolloService),
                         [S3_BUCKET |-> in.bucket,
                          DEBUG |-> Or(Get(in.functions.apolloService, "debug"), "true"),
                          UPLOAD_MIN_FILE_SIZE |->
                              String(in.functions.apolloService, "uploadMinFileSize"),
                          UPLOAD_MAX_FILE_SIZE |->
                              String(in.functions.apolloService, "uploadMaxFileSize")])])

\* the object passed to apolloService
apolloServiceArgs(in, dlOut) ==
    Merge(in.functions.apolloService,
          [region |-> in.region,
           binaryMediaTypes |-> <<"*/*">>,
           endpoints |-> <<[path |-> "/files/{path}", method |-> "ANY",
                            function |-> Get(dlOut, "arn")]>>,
           env |-> Merge(EnvOf(in.functions.apolloService),
                         [S3_BUCKET |-> in.bucket,
                          DEBUG |-> Or(Get(in.functions.apolloService, "debug"), "true"),
                          UPLOAD_MIN_FILE_SIZE |->
                              String(in.functions.apolloService, "uploadMinFileSize"),
                          UPLOAD_MAX_FILE_SIZE |->
                              String(in.functions.apolloService, "uploadMaxFileSize")])])

\* the object assigned to output
outputOf(s3Out, apolloOut) ==
    [api |-> apolloOut.api,
     s3 |-> s3Out,
     cdnOrigin |-> [url |-> Get(apolloOut.api, "url"),
                    pathPatterns |-> [p \in {"/files/*"} |-> [ttl |-> 2592000]]]]

(* ------------------------------- state --------------------------------- *)

\* one awaited call of the current pass: what was called, with what, and
\* what it resolved to (Threw when it rejected)
Call(op, res, args, ret) == [op |-> op, res |-> res, args |-> args, ret |-> ret]

NoOutcome == [op |-> "none", status |-> "none"]

\* the local constants of default() before any of them is assigned
NoLocals ==
    [manageFilesLambdaOutput |-> Undefined,
     s3Output |-> Undefined,
     imageTransformerLambdaOutput |-> Undefined,
     downloadLambdaOutput |-> Undefined,
     apolloServiceOutput |-> Undefined]

Init ==
    /\ pc = "idle"
    /\ inputs = Undefined
    /\ locals = NoLocals
    /\ state = EmptyObject
    /\ persisted = EmptyObject
    /\ calls = <<>>
    /\ outcome = NoOutcome
    /\ preceding = NoOutcome
    /\ prev = Undefined
    /\ other = "idle"

\* default() with the download function deployed before the image
\* transformer and the notification wiring before the bucket
DeployOrderSwapped ==
    <<"manageFiles", "configureS3Bucket", "s3", "download",
      "imageTransformer", "apolloService", "save">>

\* default() without the call that wires the bucket notification
DeployOrderUnwired ==
    <<"manageFiles", "s3", "imageTransformer", "download", "apolloService",
      "save">>

\* the awaited statements of default(), in program order
DeployOrder ==
    <<"manageFiles", "s3", "configureS3Bucket", "imageTransformer",
      "download", "apolloService", "save">>

\* the awaited statements of remove(), in program order
RemoveOrder ==
    <<"removeApolloService", "removeManageFiles", "removeImageTransformer",
      "removeDownload", "clearState">>

\* the statement that follows step in order
StepAfter(order, step) ==
    order[(CHOOSE i \in DOMAIN order : order[i] = step) + 1]

\* an exception that is caught and logged: the pass goes on with the
\* statement after the throwing one
RejectSwallowed(op, error, at) ==
    /\ pc' = IF pc \in {DeployOrder[i] : i \in 1..(Len(DeployOrder) - 1)}
             THEN StepAfter(DeployOrder, pc)
             ELSE "idle"
    /\ outcome' = [op |-> op, status |-> "error", error |-> error, at |-> at]
    /\ locals' = NoLocals

\* an exception leaves the async method: nothing after the throwing
\* statement runs, the promise of the pass rejects, the locals are gone
Reject(op, error, at) ==
    /\ pc' = "idle"
    /\ outcome' = [op |-> op, status |-> "error", error |-> error, at |-> at]
    /\ locals' = NoLocals

\* a statement of default() throws before it calls anything
Throw(error, at) ==
    /\ Reject("deploy", error, at)
    /\ UNCHANGED <<inputs, state, persisted, calls, preceding, prev, other>>

\* an await that records every resolved output in this.state and saves it
AwaitRecording(res, args, returns, local) ==
    /\ \E ret \in returns \cup {Threw} :
          /\ calls' = Append(calls, Call("apply", res, args, ret))
          /\ IF ret = Threw
             THEN /\ Reject("deploy", "AdapterError", res)
                  /\ UNCHANGED <<state, persisted>>
             ELSE /\ locals' = IF local \in DOMAIN locals
                               THEN [locals EXCEPT ![local] = ret]
                               ELSE locals
                  /\ pc' = StepAfter(DeployOrder, pc)
                  /\ state' = Merge(state, [k \in {res} |-> ret])
                  /\ persisted' = state'
                  /\ UNCHANGED outcome
    /\ UNCHANGED <<inputs, preceding, prev, other>>

\* const local = await component(args): the call resolves to one of returns
\* or rejects; default() writes nothing to this.state here
Await(res, args, returns, local) ==
    /\ \E ret \in returns \cup {Threw} :
          /\ calls' = Append(calls, Call("apply", res, args, ret))
          /\ IF ret = Threw
             THEN Reject("deploy", "AdapterError", res)
             ELSE /\ locals' = IF local \in DOMAIN locals
                               THEN [locals EXCEPT ![local] = ret]
                               ELSE locals
                  /\ pc' = StepAfter(DeployOrder, pc)
                  /\ UNCHANGED outcome
    /\ UNCHANGED <<inputs, state, persisted, preceding, prev, other>>

(* ------------------------------ default() ------------------------------ *)

\* if (!apolloServiceInputs.plugins) apolloServiceInputs.plugins = []
withPlugins(in) ==
    [in EXCEPT !.functions.apolloService = Merge([plugins |-> <<>>], @)]

\* what a successful deploy pass leaves behind, as the next pass finds it
LastDeploy ==
    [inputs |-> inputs, calls |-> calls, returned |-> outcome.returned,
     persisted |-> persisted]

\* default(rawInputs) up to the first awaited call, for inputs of InputSet;
\* remember: whether the pass before is kept in prev
DeployStartFrom(InputSet, remember) ==
    /\ pc = "idle"
    /\ calls' = <<>>
    /\ preceding' = [op |-> outcome.op, status |-> outcome.status]
    /\ \E in \in InputSet :
          IF in.functions.apolloService = Undefined
          THEN /\ inputs' = in
               /\ Reject("deploy", "TypeError", "apolloServiceInputs")
          ELSE /\ inputs' = withPlugins(in)
               /\ pc' = DeployOrder[1]
               /\ outcome' = [op |-> "deploy", status |-> "running"]
               /\ locals' = NoLocals
    /\ prev' = IF remember /\ outcome.op = "deploy" /\ outcome.status = "ok"
               THEN LastDeploy
               ELSE Undefined
    /\ UNCHANGED <<state, persisted, other>>

DeployStart == DeployStartFrom(Inputs, FALSE)

\* await manageFilesLambda({...})
ApplyManageFiles ==
    /\ pc = "manageFiles"
    /\ LET args == manageFilesArgs(inputs) IN
       Await("manage-files", args, FunctionReturns(args), "manageFilesLambdaOutput")

\* await s3({ name: bucket, region, ...storage })
ApplyS3 ==
    /\ pc = "s3"
    /\ LET args == s3Args(inputs) IN
       Await("s3", args, S3Returns(args), "s3Output")

\* await configureS3Bucket({...}); its result is not kept
ConfigureS3Bucket ==
    /\ pc = "configureS3Bucket"
    /\ LET args == configureS3BucketArgs(inputs, locals.s3Output,
                                         locals.manageFilesLambdaOutput) IN
       Await("configureS3Bucket", args, {EmptyObject}, "")

\* await imageTransformerLambda({...}); reading imageTransformerInputs.env
\* throws when the options are undefined
ApplyImageTransformer ==
    /\ pc = "imageTransformer"
    /\ IF inputs.functions.imageTransformer = Undefined
       THEN Throw("TypeError", "imageTransformerInputs")
       ELSE LET args == imageTransformerArgs(inputs) IN
            Await("image-transformer", args, FunctionReturns(args),
                  "imageTransformerLambdaOutput")

\* await downloadLambda({...}); reading downloadFileInputs.env throws when
\* the options are undefined
ApplyDownload ==
    /\ pc = "download"
    /\ IF inputs.functions.downloadFile = Undefined
       THEN Throw("TypeError", "downloadFileInputs")
       ELSE LET args == downloadArgs(inputs, locals.imageTransformerLambdaOutput) IN
            Await("download", args, FunctionReturns(args), "downloadLambdaOutput")

\* await apolloService({...})
ApplyApolloService ==
    /\ pc = "apolloService"
    /\ LET args == apolloServiceArgs(inputs, locals.downloadLambdaOutput) IN
       Await("apollo-service", args, ApolloServiceReturns(args),
             "apolloServiceOutput")

\* default() that saves before it assigns this.state.output
SaveBeforeAssign ==
    /\ pc = "save"
    /\ IF "api" \notin DOMAIN locals.apolloServiceOutput
       THEN Throw("TypeError", "apolloServiceOutput.api")
       ELSE LET output == outputOf(locals.s3Output, locals.apolloServiceOutput) IN
            /\ persisted' = state
            /\ state' = Merge(state, [output |-> output])
            /\ pc' = "idle"
            /\ outcome' = [op |-> "deploy", status |-> "ok", returned |-> output]
            /\ locals' = NoLocals
            /\ UNCHANGED <<inputs, calls, preceding, prev, other>>

\* const output = {...}; this.state.output = output; await this.save();
\* return output.  Reading apolloServiceOutput.api.url throws when the
\* service returned no api.
Save ==
    /\ pc = "save"
    /\ IF "api" \notin DOMAIN locals.apolloServiceOutput
       THEN Throw("TypeError", "apolloServiceOutput.api")
       ELSE LET output == outputOf(locals.s3Output, locals.apolloServiceOutput) IN
            /\ state' = Merge(state, [output |-> output])
            /\ persisted' = state'
            /\ pc' = "idle"
            /\ outcome' = [op |-> "deploy", status |-> "ok", returned |-> output]
            /\ locals' = NoLocals
            /\ UNCHANGED <<inputs, calls, preceding, prev, other>>

(* ------------------------------- remove() ------------------------------ *)

\* remove() that also loads and removes the bucket component
removeTargetWithBucket(step) ==
    CASE step = "removeApolloService" -> "apollo-service"
      [] step = "removeManageFiles" -> "manage-files"
      [] step = "removeImageTransformer" -> "image-transformer"
      [] step = "removeDownload" -> "s3"

\* the component each statement of remove() loads and removes
removeTarget(step) ==
    CASE step = "removeApolloService" -> "apollo-service"
      [] step = "removeManageFiles" -> "manage-files"
      [] step = "removeImageTransformer" -> "image-transformer"
      [] step = "removeDownload" -> "download"

\* remove() is called
RemoveStart ==
    /\ pc = "idle"
    /\ pc' = RemoveOrder[1]
    /\ calls' = <<>>
    /\ inputs' = Undefined
    /\ outcome' = [op |-> "remove", status |-> "running"]
    /\ preceding' = [op |-> outcome.op, status |-> outcome.status]
    /\ prev' = Undefined
    /\ UNCHANGED <<locals, state, persisted, other>>

\* a remove() that empties and saves this.state in a finally block, also
\* when a removal rejected
RemoveStepFinally(step) ==
    /\ pc = step
    /\ \E ret \in {EmptyObject, Threw} :
          /\ calls' = Append(calls, Call("remove", removeTarget(step), EmptyObject, ret))
          /\ IF ret = Threw
             THEN /\ pc' = "idle"
                  /\ outcome' = [op |-> "remove", status |-> "error",
                                 error |-> "AdapterError", at |-> removeTarget(step)]
                  /\ state' = EmptyObject
                  /\ persisted' = state'
             ELSE /\ pc' = StepAfter(RemoveOrder, step)
                  /\ UNCHANGED <<outcome, state, persisted>>
    /\ UNCHANGED <<inputs, locals, preceding, prev, other>>

\* await component.remove(): a rejection leaves remove() at once
RemoveStep(step) ==
    /\ pc = step
    /\ \E ret \in {EmptyObject, Threw} :
          /\ calls' = Append(calls, Call("remove", removeTarget(step), EmptyObject, ret))
          /\ IF ret = Threw
             THEN /\ pc' = "idle"
                  /\ outcome' = [op |-> "remove", status |-> "error",
                                 error |-> "AdapterError", at |-> removeTarget(step)]
             ELSE /\ pc' = StepAfter(RemoveOrder, step)
                  /\ UNCHANGED outcome
    /\ UNCHANGED <<inputs, locals, state, persisted, preceding, prev, other>>

RemoveApolloService == RemoveStep("removeApolloService")

RemoveManageFiles == RemoveStep("removeManageFiles")

RemoveImageTransformer == RemoveStep("removeImageTransformer")

RemoveDownload == RemoveStep("removeDownload")

\* remove() that saves without emptying this.state
ClearStateKept ==
    /\ pc = "clearState"
    /\ state' = state
    /\ persisted' = state'
    /\ pc' = "idle"
    /\ outcome' = [op |-> "remove", status |-> "ok"]
    /\ UNCHANGED <<inputs, locals, calls, preceding, prev, other>>

\* this.state = {}; await this.save()
ClearState ==
    /\ pc = "clearState"
    /\ state' = EmptyObject
    /\ persisted' = state'
    /\ pc' = "idle"
    /\ outcome' = [op |-> "remove", status |-> "ok"]
    /\ UNCHANGED <<inputs, locals, calls, preceding, prev, other>>

(* --------------------------- specification ----------------------------- *)

Next ==
    \/ DeployStart
    \/ ApplyManageFiles
    \/ ApplyS3
    \/ ConfigureS3Bucket
    \/ ApplyImageTransformer
    \/ ApplyDownload
    \/ ApplyApolloService
    \/ Save
    \/ RemoveStart
    \/ RemoveApolloService
    \/ RemoveManageFiles
    \/ RemoveImageTransformer
    \/ RemoveDownload
    \/ ClearState

Spec == Init /\ [][Next]_vars

\* re-deployment: the same program over fewer inputs, each deploy pass
\* keeping in prev the successful deploy pass it follows
RedeployInputs ==
    {in \in Inputs :
        /\ in.storage = EmptyObject
        /\ in.functions.imageTransformer # Undefined
        /\ in.functions.downloadFile # Undefined
        /\ "debug" \notin DOMAIN in.functions.apolloService}

RedeployStart == DeployStartFrom(RedeployInputs, TRUE)

NextRedeploy ==
    \/ RedeployStart
    \/ ApplyManageFiles
    \/ ApplyS3
    \/ ConfigureS3Bucket
    \/ ApplyImageTransformer
    \/ ApplyDownload
    \/ ApplyApolloService
    \/ Save
    \/ RemoveStart
    \/ RemoveApolloService
    \/ RemoveManageFiles
    \/ RemoveImageTransformer
    \/ RemoveDownload
    \/ ClearState

SpecRedeploy == Init /\ [][NextRedeploy]_vars

(* --------------------------- the debug flag ---------------------------- *)

\* inputs that differ in the API options only
DebugInputs ==
    [region : Regions, bucket : {"files-prod"}, storage : {EmptyObject},
     functions : [apolloService : DebugOptions,
                  downloadFile : DownloadFileOptions \ {Undefined},
                  imageTransformer : ImageTransformerOptions \ {Undefined}]]

DebugStart == DeployStartFrom(DebugInputs, FALSE)

NextDebug ==
    \/ DebugStart
    \/ ApplyManageFiles
    \/ ApplyS3
    \/ ConfigureS3Bucket
    \/ ApplyImageTransformer
    \/ ApplyDownload
    \/ ApplyApolloService
    \/ Save
    \/ RemoveStart
    \/ RemoveApolloService
    \/ RemoveManageFiles
    \/ RemoveImageTransformer
    \/ RemoveDownload
    \/ ClearState

SpecDebug == Init /\ [][NextDebug]_vars

(* ------------------------- concurrent remove() ------------------------- *)

\* the calls of remove() started since the log of the pass began: each
\* begins by removing the first target
RemovesStarted ==
    Cardinality({i \in DOMAIN calls :
                    calls[i].op = "remove"
                        /\ calls[i].res = removeTarget(RemoveOrder[1])})

\* the statements of default() at which the concurrent call is made
ConcurrentFrom == {"apolloService", "save"}

\* remove() is called on the component while a pass is in flight: nothing in
\* default() or remove() makes the second call wait
ConcurrentRemoveStart ==
    /\ other = "idle"
    /\ pc \in ConcurrentFrom
    /\ RemovesStarted < MaxConcurrent
    /\ other' = RemoveOrder[1]
    /\ UNCHANGED <<pc, inputs, locals, state, persisted, calls, outcome,
                   preceding, prev>>

\* await component.remove() of the concurrent call
ConcurrentRemoveStep(step) ==
    /\ other = step
    /\ \E ret \in {EmptyObject, Threw} :
          /\ calls' = Append(calls, Call("remove", removeTarget(step), EmptyObject, ret))
          /\ other' = IF ret = Threw THEN "idle" ELSE StepAfter(RemoveOrder, step)
    /\ UNCHANGED <<pc, inputs, locals, state, persisted, outcome, preceding, prev>>

ConcurrentRemoveApolloService == ConcurrentRemoveStep("removeApolloService")

ConcurrentRemoveManageFiles == ConcurrentRemoveStep("removeManageFiles")

ConcurrentRemoveImageTransformer == ConcurrentRemoveStep("removeImageTransformer")

ConcurrentRemoveDownload == ConcurrentRemoveStep("removeDownload")

\* this.state = {}; await this.save() of the concurrent call
ConcurrentClearState ==
    /\ other = "clearState"
    /\ state' = EmptyObject
    /\ persisted' = state'
    /\ other' = "idle"
    /\ UNCHANGED <<pc, inputs, locals, calls, outcome, preceding, prev>>

\* the inputs of the deploy passes run next to a concurrent remove()
ConcurrentInputs ==
    {in \in RedeployInputs :
        in.bucket = "files-prod" /\ in.functions.apolloService # Undefined}

\* the next pass is started once the concurrent call of the pass before
\* has returned
ConcurrentDeployStart ==
    /\ other = "idle"
    /\ DeployStartFrom(ConcurrentInputs, FALSE)

NextConcurrent ==
    \/ ConcurrentDeployStart
    \/ ApplyManageFiles
    \/ ApplyS3
    \/ ConfigureS3Bucket
    \/ ApplyImageTransformer
    \/ ApplyDownload
    \/ ApplyApolloService
    \/ Save
    \/ ConcurrentRemoveStart
    \/ ConcurrentRemoveApolloService
    \/ ConcurrentRemoveManageFiles
    \/ ConcurrentRemoveImageTransformer
    \/ ConcurrentRemoveDownload
    \/ ConcurrentClearState

SpecConcurrent == Init /\ [][NextConcurrent]_vars

(* ------------------------------ properties ----------------------------- *)

\* the calls of the pass that applied res
AppliesOf(res) ==
    {i \in DOMAIN calls : calls[i].op = "apply" /\ calls[i].res = res}

\* the calls of the pass that removed res
RemovesOf(res) ==
    {i \in DOMAIN calls : calls[i].op = "remove" /\ calls[i].res = res}

\* every apply of b comes after an apply of a that resolved
AppliedBefore(a, b) ==
    \A j \in AppliesOf(b) : \E i \in AppliesOf(a) : i < j /\ calls[i].ret # Threw

DeployOk == pc = "idle" /\ outcome.op = "deploy" /\ outcome.status = "ok"

DeployFailed == pc = "idle" /\ outcome.op = "deploy" /\ outcome.status = "error"

RemoveOk == pc = "idle" /\ outcome.op = "remove" /\ outcome.status = "ok"

RemoveFailed == pc = "idle" /\ outcome.op = "remove" /\ outcome.status = "error"

\* C1: in every deploy pass a resource is applied only after the resources
\* whose output it consumes: image-transformer before download, download
\* before the API service, the bucket and manage-files before the bucket
\* notification wiring.
C1_DependencyOrder ==
    /\ AppliedBefore("image-transformer", "download")
    /\ AppliedBefore("download", "apollo-service")
    /\ AppliedBefore("s3", "configureS3Bucket")
    /\ AppliedBefore("manage-files", "configureS3Bucket")

\* a deploy pass that applied all six resources
C1_Witness ==
    /\ DeployOk
    /\ \A r \in {"manage-files", "s3", "configureS3Bucket", "image-transformer",
                 "download", "apollo-service"} : AppliesOf(r) # {}

\* C2: remove() never calls remove on the S3 bucket component, whatever the
\* inputs were and whichever other removals resolve or reject.
C2_BucketNeverRemoved == RemovesOf("s3") = {}

\* a teardown that removed the four other components and cleared the state
C2_Witness ==
    /\ RemoveOk
    /\ Len(calls) = 4
    /\ preceding = [op |-> "deploy", status |-> "ok"]

\* C3: when the apply of a resource rejects, the pass ends there: it is the
\* last call of the pass, deploy has failed with an error naming that
\* resource, and the pass has not saved or returned an output.
C3_FailedApplyAborts ==
    \A i \in DOMAIN calls :
        (calls[i].op = "apply" /\ calls[i].ret = Threw)
            => /\ i = Len(calls)
               /\ DeployFailed
               /\ outcome.at = calls[i].res

\* a pass whose fourth apply rejected after three resolved
C3_Witness ==
    /\ DeployFailed
    /\ Len(calls) = 4
    /\ calls[4].ret = Threw
    /\ \A i \in 1..3 : calls[i].ret # Threw

\* the persisted state holds ret as one of the entries of its output
Recorded(ret) ==
    /\ "output" \in DOMAIN persisted
    /\ \E k \in DOMAIN persisted.output : persisted.output[k] = ret

C5_BestEffortTeardown ==
    RemoveFailed =>
        /\ \A r \in {"apollo-service", "manage-files", "image-transformer",
                     "download"} : RemovesOf(r) # {}
        /\ \A i \in DOMAIN calls : calls[i].ret = Threw => outcome.at = calls[i].res

\* the persisted state holds the bucket output and none of the others
OnlyStorageEntry ==
    /\ "output" \in DOMAIN persisted
    /\ "s3" \in DOMAIN persisted.output
    /\ "api" \notin DOMAIN persisted.output
    /\ "cdnOrigin" \notin DOMAIN persisted.output

\* a successful teardown right after a successful deploy
RemovedAfterDeploy == RemoveOk /\ preceding = [op |-> "deploy", status |-> "ok"]

SameAdapters(first, second) ==
    \A i \in DOMAIN first : \A j \in DOMAIN second :
        (first[i].op = second[j].op /\ first[i].res = second[j].res
            /\ first[i].args = second[j].args)
                => first[i].ret = second[j].ret

\* what the notification wiring was called with in a pass
NotificationArgs(log) ==
    {log[i].args : i \in {j \in DOMAIN log : log[j].res = "configureS3Bucket"}}

\* a successful deploy pass run right after a successful one, with the same
\* inputs and components that answer alike
Redeployed ==
    /\ DeployOk
    /\ prev # Undefined
    /\ inputs = prev.inputs
    /\ SameAdapters(prev.calls, calls)

\* C7: re-running deploy with the same inputs on the state a successful
\* deploy left, with components that resolve the same call to the same
\* output, returns the same output, persists the same state and calls the
\* notification wiring with the same arguments.
C7_RedeployIdempotent ==
    Redeployed =>
        /\ outcome.returned = prev.returned
        /\ persisted = prev.persisted
        /\ NotificationArgs(calls) = NotificationArgs(prev.calls)

\* a second successful pass over the state of the first
C7_Witness ==
    /\ Redeployed
    /\ Len(calls) = 6
    /\ prev.persisted = [output |-> prev.returned]

\* the call of the pass that applied res
ApplyOf(res) == calls[CHOOSE i \in AppliesOf(res) : TRUE]

\* C8 as stated: a successful deploy returns the output of this pass's bucket
\* apply, which was called with name = the configured bucket, the api of the
\* API service's output, and the single path pattern "/files/*" with ttl
\* 2592000, whatever the inputs.
C8_CompositeResult ==
    DeployOk =>
        /\ outcome.returned.s3 = ApplyOf("s3").ret
        /\ ApplyOf("s3").args.name = inputs.bucket
        /\ outcome.returned.api = ApplyOf("apollo-service").ret.api
        /\ outcome.returned.cdnOrigin.pathPatterns
              = [p \in {"/files/*"} |-> [ttl |-> 2592000]]

\* C9 as stated: when the download function's output has no arn, or the
\* image transformer's output has no name, deploy fails with an
\* UnresolvedReferenceError before the consumer (the API service, the
\* download function) is called.
C9_UnresolvedReferenceFails ==
    /\ (AppliesOf("download") # {} /\ "arn" \notin DOMAIN ApplyOf("download").ret)
          => /\ AppliesOf("apollo-service") = {}
             /\ pc = "idle" => (DeployFailed /\ outcome.error = "UnresolvedReferenceError")
    /\ (AppliesOf("image-transformer") # {}
            /\ "name" \notin DOMAIN ApplyOf("image-transformer").ret)
          => /\ AppliesOf("download") = {}
             /\ pc = "idle" => (DeployFailed /\ outcome.error = "UnresolvedReferenceError")

\* the components a pass removed, in the order of the calls
RemovedInOrder == [i \in DOMAIN calls |-> calls[i].res]

\* C10 as stated: a teardown that goes through removes the API service, the
\* download function, the image transformer and manage-files in this order,
\* the reverse of the order default() applies them in.
C10_ReverseOrder ==
    (RemoveOk /\ Len(calls) = 4)
        => RemovedInOrder
              = <<"apollo-service", "download", "image-transformer", "manage-files">>


\* a deploy pass that failed on the configuration: one of the option
\* mappings of inputs.functions is undefined
ConfigurationError ==
    /\ DeployFailed
    /\ outcome.error = "TypeError"
    /\ outcome.at \in {"apolloServiceInputs", "imageTransformerInputs",
                       "downloadFileInputs"}

\* C11 as stated: a deploy pass that fails on an invalid or incomplete
\* configuration has applied no resource.
C11_ConfigurationErrorBeforeApply == ConfigurationError => calls = <<>>


\* the call of the successful pass before this one that applied res
PrevApplyOf(res) ==
    prev.calls[CHOOSE i \in DOMAIN prev.calls : prev.calls[i].res = res]

\* C12: what a call is wired with is what the earlier calls of the same pass
\* resolved to: the endpoint's function is the arn of this pass's download
\* output, IMAGE_TRANSFORMER_LAMBDA_NAME is the name of this pass's image
\* transformer output, the notification wiring gets this pass's bucket and
\* manage-files outputs.
C12_WiredFromThisPass ==
    /\ \A j \in AppliesOf("apollo-service") :
          calls[j].args.endpoints[1].function = Get(ApplyOf("download").ret, "arn")
    /\ \A j \in AppliesOf("download") :
          calls[j].args.env.IMAGE_TRANSFORMER_LAMBDA_NAME
              = Get(ApplyOf("image-transformer").ret, "name")
    /\ \A j \in AppliesOf("configureS3Bucket") :
          /\ calls[j].args.s3Output = ApplyOf("s3").ret
          /\ calls[j].args.manageFilesLambdaOutput = ApplyOf("manage-files").ret

\* a successful pass after a successful pass in which the download function,
\* manage-files and the bucket had resolved to other outputs
C12_Witness ==
    /\ DeployOk
    /\ prev # Undefined
    /\ "arn" \in DOMAIN ApplyOf("download").ret
    /\ "arn" \in DOMAIN PrevApplyOf("download").ret
    /\ ApplyOf("download").ret # PrevApplyOf("download").ret
    /\ ApplyOf("manage-files").ret # PrevApplyOf("manage-files").ret
    /\ ApplyOf("s3").ret # PrevApplyOf("s3").ret


\* an apply of res of this pass resolved
Resolved(res) == \E i \in AppliesOf(res) : calls[i].ret # Threw

\* an apply of res of this pass rejected
Rejected(res) == \E i \in AppliesOf(res) : calls[i].ret = Threw

\* C13: a deploy pass calls the notification wiring at most once; it has
\* called it exactly once as soon as it is past that statement, which it
\* reaches only with the bucket and manage-files both applied; a pass in
\* which either of those applies rejected never calls it.
C13_WiringOnce ==
    /\ Cardinality(AppliesOf("configureS3Bucket")) <= 1
    /\ AppliesOf("configureS3Bucket") # {}
          => (Resolved("s3") /\ Resolved("manage-files"))
    /\ (outcome.op = "deploy" /\ Resolved("s3") /\ Resolved("manage-files")
            /\ pc # "configureS3Bucket")
          => Cardinality(AppliesOf("configureS3Bucket")) = 1
    /\ (Rejected("s3") \/ Rejected("manage-files"))
          => AppliesOf("configureS3Bucket") = {}

\* the notification wiring has just been called, after both applies
C13_Witness ==
    /\ pc = "imageTransformer"
    /\ Len(calls) = 3
    /\ calls[3].res = "configureS3Bucket"
    /\ calls[3].ret # Threw


\* all six calls of default() resolved in this pass
AllApplied ==
    \A r \in {"manage-files", "s3", "configureS3Bucket", "image-transformer",
              "download", "apollo-service"} : Resolved(r)

\* C14: a step of a deploy pass changes the persisted state only when it
\* completes the pass successfully, after all six calls resolved; after a
\* successful deploy the persisted state holds the output returned to the
\* caller; hence a failed deploy leaves the output of the last successful
\* one in place.
C14_SavedOnlyOnSuccess ==
    /\ [][(outcome'.op = "deploy" /\ persisted' # persisted)
             => (DeployOk' /\ AllApplied')]_vars
    /\ [](DeployOk => ("output" \in DOMAIN persisted
                          /\ persisted.output = outcome.returned))

\* a pass that failed at or after its last apply, following a successful
\* deploy whose output is still the persisted one
C14_Witness ==
    /\ DeployFailed
    /\ preceding = [op |-> "deploy", status |-> "ok"]
    /\ Len(calls) = 6
    /\ "output" \in DOMAIN persisted


\* the four removals of remove() resolved in this pass
AllRemoved ==
    \A r \in {"apollo-service", "manage-files", "image-transformer", "download"} :
        \E i \in RemovesOf(r) : calls[i].ret # Threw

\* C15: a step of a teardown changes the persisted state only when it
\* completes the teardown successfully, after all four removals resolved, so
\* a teardown in which a removal rejects leaves the persisted state as it
\* was; after a successful teardown the persisted state holds no output.
C15_ClearedOnlyOnSuccess ==
    /\ [][(outcome'.op = "remove" /\ persisted' # persisted)
             => (RemoveOk' /\ AllRemoved')]_vars
    /\ [](RemoveOk => "output" \notin DOMAIN persisted)

\* a teardown of a deployment in which a removal rejected after another had
\* resolved: the output is still persisted
C15_Witness ==
    /\ RemoveFailed
    /\ preceding = [op |-> "deploy", status |-> "ok"]
    /\ Len(calls) >= 2
    /\ "output" \in DOMAIN persisted


\* a removal of another call took place during a deploy pass, after the pass
\* had made its first call
InterleavedCalls ==
    /\ pc # "idle"
    /\ outcome.op = "deploy"
    /\ \E i \in DOMAIN calls : \E j \in DOMAIN calls :
          i < j /\ calls[i].op = "apply" /\ calls[j].op = "remove"

\* the persisted state holds the output of a deploy pass whose API service
\* was removed after that pass had applied it
StaleOutput ==
    /\ DeployOk
    /\ "output" \in DOMAIN persisted
    /\ \E i \in AppliesOf("apollo-service") : \E j \in RemovesOf("apollo-service") :
          i < j /\ calls[j].ret # Threw

\* C16 as stated: the calls of one pass never interleave with those of
\* another call of default() or remove(), so the persisted state never holds
\* the output of a deployment that an interleaved teardown has removed.
C16_PassesSerialized == ~InterleavedCalls /\ ~StaleOutput


\* the applies of the pass that take an env: the three functions and the API
EnvApplies ==
    AppliesOf("manage-files") \cup AppliesOf("image-transformer")
        \cup AppliesOf("download") \cup AppliesOf("apollo-service")

\* the option mapping the user gave for res (manage-files takes none)
OptionsOf(res) ==
    CASE res = "image-transformer" -> inputs.functions.imageTransformer
      [] res = "download" -> inputs.functions.downloadFile
      [] res = "apollo-service" -> inputs.functions.apolloService
      [] OTHER -> EmptyObject

\* every env carries the configured bucket, whatever the user's env says
S3BucketConfigured ==
    \A i \in EnvApplies : calls[i].args.env.S3_BUCKET = inputs.bucket

\* the bucket was applied under the name the functions and the API were given
S3BucketIsStorageName ==
    \A i \in EnvApplies : \A j \in AppliesOf("s3") :
        calls[j].args.name = calls[i].args.env.S3_BUCKET

\* the variables of the user's env other than the orchestrator's reach the apply
EnvAdditive ==
    \A i \in EnvApplies :
        \A k \in DOMAIN EnvOf(OptionsOf(calls[i].res)) \ {"S3_BUCKET", "DEBUG"} :
            /\ k \in DOMAIN calls[i].args.env
            /\ calls[i].args.env[k] = EnvOf(OptionsOf(calls[i].res))[k]

\* region, name, code and handler of the two optional functions are the
\* orchestrator's
IdentityProtected ==
    /\ \A i \in AppliesOf("image-transformer") :
          /\ calls[i].args.region = inputs.region
          /\ calls[i].args.name = getResourceName("image-transformer")
          /\ calls[i].args.code = "functions/imageTransformer"
          /\ calls[i].args.handler = "handler.handler"
    /\ \A i \in AppliesOf("download") :
          /\ calls[i].args.region = inputs.region
          /\ calls[i].args.name = getResourceName("download-files")
          /\ calls[i].args.code = "functions/downloadFile"
          /\ calls[i].args.handler = "handler.handler"

\* what the user's options cannot change: the bucket in every env and the
\* identity of the two optional functions, while the user's own variables
\* pass through
ProtectedFromUserOptions == S3BucketConfigured /\ EnvAdditive /\ IdentityProtected

\* C17 as stated: every function and the API receive S3_BUCKET equal to the
\* configured bucket name that the bucket was applied with; a user env can add
\* variables but never override S3_BUCKET, and user options never override
\* region, name, code or handler of the image-transformer and download
\* functions.
C17_BucketAndIdentityProtected == S3BucketIsStorageName /\ ProtectedFromUserOptions


\* the debug flag of the API options, UndefinedValue when there is none
DebugFlag == Get(inputs.functions.apolloService, "debug")

\* C18: the DEBUG passed to the API service is the debug flag when the flag
\* is truthy and the string "true" when the flag is absent or false; the
\* DEBUG of a user-supplied env is never the one passed.
C18_DebugFlagOrTrue ==
    \A i \in AppliesOf("apollo-service") :
        /\ DebugFlag = BoolTrue => calls[i].args.env.DEBUG = BoolTrue
        /\ DebugFlag \in {UndefinedValue, BoolFalse} => calls[i].args.env.DEBUG = "true"
        /\ "DEBUG" \in DOMAIN EnvOf(inputs.functions.apolloService)
              => calls[i].args.env.DEBUG # inputs.functions.apolloService.env.DEBUG

\* the API service was applied with debug: true and a user env that sets
\* DEBUG
C18_Witness ==
    /\ AppliesOf("apollo-service") # {}
    /\ DebugFlag = BoolTrue
    /\ "DEBUG" \in DOMAIN EnvOf(inputs.functions.apolloService)

====
